---- MODULE Spec2Model ----
(***************************************************************************)
(* A state-machine model of the Sudoku validator/solver in src/main.go.    *)
(*                                                                         *)
(* The program state is the two global grids (board, solution), the        *)
(* solution counter of main, the argument list, main's position, the       *)
(* stack of active solve calls and the lines printed so far.  Characters   *)
(* are modelled by their code points, grids as board[i][j] with i, j in    *)
(* 0..SIZE-1, exactly as the code indexes them.                            *)
(***************************************************************************)
EXTENDS Integers, Sequences, FiniteSets

VARIABLES
    args,       \* os.Args[1:], a sequence of lines, each a sequence of code points
    board,      \* the global working grid
    solution,   \* the global captured-solution grid
    solutions,  \* main's local counter, shared with solve through the pointer
    limit,      \* the limit argument handed down unchanged through every solve call
    pc,         \* main's position: "parse", "validate", "solve", "search", "done"
    stack,      \* the active solve calls, innermost last
    out,        \* the lines printed so far
    start,      \* history: the grid as parsed, before validation and search
    nValid,     \* history: number of evaluations of isValid
    nSolve,     \* history: number of calls of solve
    nCopy,      \* history: number of executions of copySolution
    found,      \* history: the board at each increment of the counter, in order
    placed      \* history: the placements <<row, col, num>> made so far, in order,
                \* the first MaxTrace of them

vars == <<args, board, solution, solutions, limit, pc, stack, out,
          start, nValid, nSolve, nCopy, found, placed>>

----------------------------------------------------------------------------
(* Program constants *)

SIZE == 9

LIMIT == 2

Dot == 46

Ord0 == 48

Ord1 == 49

Ord9 == 57

Space == 32

Idx == 0 .. (SIZE - 1)

ZeroBoard == [i \in Idx |-> [j \in Idx |-> 0]]

ErrorLine == <<69, 114, 114, 111, 114>>

----------------------------------------------------------------------------
(* Argument parsing: main, lines 17-40 *)

\* Number of bytes of the UTF-8 encoding of a code point below 2048.
Width(ch) == IF ch < 128 THEN 1 ELSE 2

RECURSIVE ByteLen(_)
ByteLen(line) == IF line = <<>> THEN 0 ELSE Width(Head(line)) + ByteLen(Tail(line))

\* Mutant of ParseLine: the digit is taken as ch - '1'.
RECURSIVE ParseLineOffByOne(_, _, _, _, _)
ParseLineOffByOne(b, i, line, k, j) ==
    IF k > Len(line) THEN [ok |-> TRUE, board |-> b]
    ELSE LET ch == line[k] IN
         IF ch = Dot
         THEN ParseLineOffByOne([b EXCEPT ![i][j] = 0], i, line, k + 1, j + Width(ch))
         ELSE IF ch >= Ord1 /\ ch <= Ord9
         THEN ParseLineOffByOne([b EXCEPT ![i][j] = ch - Ord1], i, line, k + 1, j + Width(ch))
         ELSE [ok |-> FALSE, board |-> b]

\* Mutant of ParseLine: the digit test starts at '0' instead of '1'.
RECURSIVE ParseLineFromZero(_, _, _, _, _)
ParseLineFromZero(b, i, line, k, j) ==
    IF k > Len(line) THEN [ok |-> TRUE, board |-> b]
    ELSE LET ch == line[k] IN
         IF ch = Dot
         THEN ParseLineFromZero([b EXCEPT ![i][j] = 0], i, line, k + 1, j + Width(ch))
         ELSE IF ch >= Ord0 /\ ch <= Ord9
         THEN ParseLineFromZero([b EXCEPT ![i][j] = ch - Ord0], i, line, k + 1, j + Width(ch))
         ELSE [ok |-> FALSE, board |-> b]

\* for j, ch := range line: k is the position of the rune, j its byte offset.
RECURSIVE ParseLine(_, _, _, _, _)
ParseLine(b, i, line, k, j) ==
    IF k > Len(line) THEN [ok |-> TRUE, board |-> b]
    ELSE LET ch == line[k] IN
         IF ch = Dot
         THEN ParseLine([b EXCEPT ![i][j] = 0], i, line, k + 1, j + Width(ch))
         ELSE IF ch >= Ord1 /\ ch <= Ord9
         THEN ParseLine([b EXCEPT ![i][j] = ch - Ord0], i, line, k + 1, j + Width(ch))
         ELSE [ok |-> FALSE, board |-> b]

\* for i := 0; i < SIZE; i++: the length test, then the runes of line i.
RECURSIVE ParseRows(_, _, _)
ParseRows(b, argv, i) ==
    IF i = SIZE THEN [ok |-> TRUE, board |-> b]
    ELSE IF ByteLen(argv[i + 1]) # SIZE THEN [ok |-> FALSE, board |-> b]
    ELSE LET r == ParseLine(b, i, argv[i + 1], 1, 0) IN
         IF r.ok THEN ParseRows(r.board, argv, i + 1) ELSE r

\* The whole parse: whether it succeeded and the board it leaves behind.
ParseArgs(argv) ==
    IF Len(argv) # SIZE THEN [ok |-> FALSE, board |-> ZeroBoard]
    ELSE ParseRows(ZeroBoard, argv, 0)

----------------------------------------------------------------------------
(* Grid predicates: isValid, isValidSubgrid, findEmpty, isSafe *)

\* Mutant of RowColDup: the row test is left out, only columns are checked.
RECURSIVE RowColDupColumnOnly(_, _, _, _, _)
RowColDupColumnOnly(b, i, j, row, col) ==
    IF j = SIZE THEN FALSE
    ELSE IF b[j][i] # 0 /\ b[j][i] \in col THEN TRUE
    ELSE RowColDupColumnOnly(b, i, j + 1, row,
                             IF b[j][i] # 0 THEN col \cup {b[j][i]} ELSE col)

\* The inner loop of isValid for one i, from j on, with the marks set so far:
\* TRUE when it reaches a return false.
RECURSIVE RowColDup(_, _, _, _, _)
RowColDup(b, i, j, row, col) ==
    IF j = SIZE THEN FALSE
    ELSE IF b[i][j] # 0 /\ b[i][j] \in row THEN TRUE
    ELSE IF b[j][i] # 0 /\ b[j][i] \in col THEN TRUE
    ELSE RowColDup(b, i, j + 1,
                   IF b[i][j] # 0 THEN row \cup {b[i][j]} ELSE row,
                   IF b[j][i] # 0 THEN col \cup {b[j][i]} ELSE col)

\* The two loops of isValidSubgrid flattened: k = 3*i + j.
RECURSIVE SubgridDup(_, _, _, _, _)
SubgridDup(b, startRow, startCol, k, marks) ==
    IF k = 9 THEN FALSE
    ELSE LET val == b[startRow + (k \div 3)][startCol + (k % 3)] IN
         IF val # 0 /\ val \in marks THEN TRUE
         ELSE SubgridDup(b, startRow, startCol, k + 1,
                         IF val # 0 THEN marks \cup {val} ELSE marks)

\* Mutant of isValidSubgrid: the column is taken from startRow.
isValidSubgridRowForCol(b, startRow, startCol) == ~SubgridDup(b, startRow, startRow, 0, {})

isValidSubgrid(b, startRow, startCol) == ~SubgridDup(b, startRow, startCol, 0, {})

BoxStarts == {i \in Idx : i % 3 = 0}

isValid(b) ==
    /\ \A i \in Idx : ~RowColDup(b, i, 0, {}, {})
    /\ \A i \in BoxStarts : \A j \in BoxStarts : isValidSubgrid(b, i, j)

EmptyCells(b) == {p \in Idx \X Idx : b[p[1]][p[2]] = 0}

\* Mutant of findEmpty: the scan keeps going and returns the last empty cell.
findEmptyLast(b) ==
    IF EmptyCells(b) = {} THEN <<-1, -1, FALSE>>
    ELSE LET p == CHOOSE p \in EmptyCells(b) :
                    \A q \in EmptyCells(b) : p[1] * SIZE + p[2] >= q[1] * SIZE + q[2]
         IN <<p[1], p[2], TRUE>>

\* Mutant of findEmpty: the scan runs column by column.
findEmptyColumnMajor(b) ==
    IF EmptyCells(b) = {} THEN <<-1, -1, FALSE>>
    ELSE LET p == CHOOSE p \in EmptyCells(b) :
                    \A q \in EmptyCells(b) : p[2] * SIZE + p[1] <= q[2] * SIZE + q[1]
         IN <<p[1], p[2], TRUE>>

\* The (row, col, found) triple findEmpty returns.
findEmpty(b) ==
    IF EmptyCells(b) = {} THEN <<-1, -1, FALSE>>
    ELSE LET p == CHOOSE p \in EmptyCells(b) :
                    \A q \in EmptyCells(b) : p[1] * SIZE + p[2] <= q[1] * SIZE + q[2]
         IN <<p[1], p[2], TRUE>>

\* Mutant of isSafe: the row is not scanned, only the column.
isSafeColumnOnly(b, row, col, num) ==
    /\ \A i \in Idx : ~(b[i][col] = num)
    /\ LET startRow == (row \div 3) * 3
           startCol == (col \div 3) * 3
       IN \A i \in 0 .. 2 : \A j \in 0 .. 2 : b[startRow + i][startCol + j] # num

\* Mutant of isSafe: the 3x3 box is not scanned.
isSafeNoBox(b, row, col, num) ==
    \A i \in Idx : ~(b[row][i] = num \/ b[i][col] = num)

\* Mutant of isSafe: the box origin is row / 3, col / 3, not multiplied by 3.
isSafeBoxNotScaled(b, row, col, num) ==
    /\ \A i \in Idx : ~(b[row][i] = num \/ b[i][col] = num)
    /\ LET startRow == row \div 3
           startCol == col \div 3
       IN \A i \in 0 .. 2 : \A j \in 0 .. 2 : b[startRow + i][startCol + j] # num

\* Mutant of isSafe: only the row is scanned, not the column.
isSafeRowOnly(b, row, col, num) ==
    /\ \A i \in Idx : ~(b[row][i] = num)
    /\ LET startRow == (row \div 3) * 3
           startCol == (col \div 3) * 3
       IN \A i \in 0 .. 2 : \A j \in 0 .. 2 : b[startRow + i][startCol + j] # num

isSafe(b, row, col, num) ==
    /\ \A i \in Idx : ~(b[row][i] = num \/ b[i][col] = num)
    /\ LET startRow == (row \div 3) * 3
           startCol == (col \div 3) * 3
       IN \A i \in 0 .. 2 : \A j \in 0 .. 2 : b[startRow + i][startCol + j] # num

\* Mutant of copySolution: every row is copied one column to the left.
copySolutionShifted(b) == [i \in Idx |-> [j \in Idx |-> b[i][(j + 1) % SIZE]]]

\* Mutant of copySolution: the indices are swapped, solution[i][j] = board[j][i].
copySolutionTransposed(b) == [i \in Idx |-> [j \in Idx |-> b[j][i]]]

\* Mutant of copySolution: the row loop stops one row early.
copySolutionRowShort(b) ==
    [i \in Idx |-> [j \in Idx |-> IF i < SIZE - 1 THEN b[i][j] ELSE solution[i][j]]]

\* The value copySolution leaves in the solution grid when the board is b.
copySolution(b) == [i \in Idx |-> [j \in Idx |-> b[i][j]]]

\* Mutant of printBoard: the space is written after the last digit as well.
printBoardTrailingSpace(b) ==
    [i \in 1 .. SIZE |->
        [k \in 1 .. (2 * SIZE) |->
            IF k % 2 = 1 THEN Ord0 + b[i - 1][(k - 1) \div 2] ELSE Space]]

\* The lines printBoard writes for grid b.
printBoard(b) ==
    [i \in 1 .. SIZE |->
        [k \in 1 .. (2 * SIZE - 1) |->
            IF k % 2 = 1 THEN Ord0 + b[i - 1][(k - 1) \div 2] ELSE Space]]

----------------------------------------------------------------------------
(* Inputs *)

MaxHoles == 8

MaxLimit == 3

\* The length up to which the history of placements is kept.
MaxTrace == 100

\* The solved grid of the documentation's sample puzzle.
Solved ==
    << <<5, 3, 4, 6, 7, 8, 9, 1, 2>>,
       <<6, 7, 2, 1, 9, 5, 3, 4, 8>>,
       <<1, 9, 8, 3, 4, 2, 5, 6, 7>>,
       <<8, 5, 9, 7, 6, 1, 4, 2, 3>>,
       <<4, 2, 6, 8, 5, 3, 7, 9, 1>>,
       <<7, 1, 3, 9, 2, 4, 8, 5, 6>>,
       <<9, 6, 1, 5, 3, 7, 2, 8, 4>>,
       <<2, 8, 7, 4, 1, 9, 6, 3, 5>>,
       <<3, 4, 5, 2, 8, 6, 1, 7, 9>> >>

\* Cells that may be blanked, in the order the bound admits them.  The first
\* eight hold two overlapping interchangeable rectangles of Solved, and a
\* cell, (5,3), one of whose missing digits only its box forbids.
HoleOrder ==
    << <<5, 3>>, <<6, 3>>, <<5, 7>>, <<5, 5>>, <<7, 3>>, <<7, 5>>, <<6, 8>>,
       <<7, 8>>, <<2, 4>>, <<2, 5>> >>

HoleCells == {HoleOrder[k] : k \in {k \in 1 .. MaxHoles : k <= Len(HoleOrder)}}

\* The one cell whose character may be replaced.
EditCell == <<6, 5>>

Alphabet == {46, 47, 58, 120, 233} \cup (48 .. 57)

\* The argument list for Solved with the cells of holes blanked and the
\* character ch written at EditCell (ch = 0: no edit).
Puzzle(holes, ch) ==
    [i \in 1 .. SIZE |->
        [j \in 1 .. SIZE |->
            IF <<i - 1, j - 1>> \in holes THEN Dot
            ELSE IF ch # 0 /\ <<i - 1, j - 1>> = EditCell THEN ch
            ELSE Ord0 + Solved[i][j]]]

GridInputs == {Puzzle(h, ch) : h \in SUBSET HoleCells, ch \in Alphabet \cup {0}}

\* Argument lists of the wrong shape, built from the full grid.
ShapeInputs ==
    LET P == Puzzle({}, 0) IN
    { <<>>,
      SubSeq(P, 1, SIZE - 1),
      Append(P, P[1]),
      [P EXCEPT ![1] = Tail(@)],
      [P EXCEPT ![5] = Append(@, Ord1)],
      [P EXCEPT ![SIZE] = <<>>],
      [P EXCEPT ![3] = <<233>> \o SubSeq(@, 3, SIZE)] }

\* Full grids other than Solved: Solved transposed, Solved with its rows in
\* the opposite order, and Solved with every digit d replaced by 10 - d.
FullInputs ==
    { [i \in 1 .. SIZE |-> [j \in 1 .. SIZE |-> Ord0 + Solved[j][i]]],
      [i \in 1 .. SIZE |-> [j \in 1 .. SIZE |-> Ord0 + Solved[SIZE + 1 - i][j]]],
      [i \in 1 .. SIZE |-> [j \in 1 .. SIZE |-> Ord0 + (10 - Solved[i][j])]] }

Inputs == GridInputs \cup ShapeInputs \cup FullInputs

MaxClues == 3

\* Cells that may hold a clue in an otherwise empty grid: every pair of them
\* shares a row, a column, a box, a row and a box, a column and a box, or nothing.
ProbeCells == {0, 1, 3, 8} \X {0, 1, 3, 8}

\* The argument list of the grid that holds f[p] at each cell p of DOMAIN f.
Sparse(f) ==
    [i \in 1 .. SIZE |->
        [j \in 1 .. SIZE |->
            IF <<i - 1, j - 1>> \in DOMAIN f THEN Ord0 + f[<<i - 1, j - 1>>] ELSE Dot]]

\* The documentation's sample puzzle, 0 standing for a dot.
SamplePuzzle ==
    << <<5, 3, 0, 0, 7, 0, 0, 0, 0>>,
       <<6, 0, 0, 1, 9, 5, 0, 0, 0>>,
       <<0, 9, 8, 0, 0, 0, 0, 6, 0>>,
       <<8, 0, 0, 0, 6, 0, 0, 0, 3>>,
       <<4, 0, 0, 8, 0, 3, 0, 0, 1>>,
       <<7, 0, 0, 0, 2, 0, 0, 0, 6>>,
       <<0, 6, 0, 0, 0, 0, 2, 8, 0>>,
       <<0, 0, 0, 4, 1, 9, 0, 0, 5>>,
       <<0, 0, 0, 0, 8, 0, 0, 7, 9>> >>

\* The command-line arguments that spell the rows of digits d.
ArgsOf(d) ==
    [i \in 1 .. Len(d) |->
        [j \in 1 .. Len(d[i]) |-> IF d[i][j] = 0 THEN Dot ELSE Ord0 + d[i][j]]]

SampleArgs == ArgsOf(SamplePuzzle)

\* Nine rows of nine dots.
EmptyArgs == ArgsOf([i \in 1 .. SIZE |-> [j \in 1 .. SIZE |-> 0]])

\* The sample with the last row ....8..99
SampleLastRow99Args == ArgsOf([SamplePuzzle EXCEPT ![SIZE] = <<0, 0, 0, 0, 8, 0, 0, 9, 9>>])

\* The sample with the last row ....8..7. (the documentation's error scenario).
SampleLastRow7DotArgs == ArgsOf([SamplePuzzle EXCEPT ![SIZE] = <<0, 0, 0, 0, 8, 0, 0, 7, 0>>])

\* The sample with its last row left out: fewer than 9 rows.
SampleShortArgs == SubSeq(SampleArgs, 1, SIZE - 1)

ExampleInputs ==
    {SampleArgs, EmptyArgs, SampleLastRow99Args, SampleLastRow7DotArgs, SampleShortArgs}

\* The sets of cells that hold the clues of a sparse grid.
SparseClues == {S \in SUBSET ProbeCells : Cardinality(S) <= MaxClues}

----------------------------------------------------------------------------
(* The state machine *)

InitWith(a, l) ==
    /\ args = a
    /\ limit = l
    /\ board = ZeroBoard
    /\ solution = ZeroBoard
    /\ solutions = 0
    /\ pc = "parse"
    /\ stack = <<>>
    /\ out = <<>>
    /\ start = ZeroBoard
    /\ nValid = 0
    /\ nSolve = 0
    /\ nCopy = 0
    /\ found = <<>>
    /\ placed = <<>>

\* The program: main calls solve with the literal limit 2.
Init == \E a \in Inputs : InitWith(a, LIMIT)

\* The parser and isValid alone, on the sparse grids as well.
InitGrid ==
    \/ \E a \in Inputs : InitWith(a, LIMIT)
    \/ \E S \in SparseClues : \E f \in [S -> 1 .. 2] : InitWith(Sparse(f), LIMIT)

\* solve as a procedure of its own: any limit from 0 to MaxLimit.
InitSolve == \E a \in GridInputs : \E l \in 0 .. MaxLimit : InitWith(a, l)

\* The program run on each of the documentation's examples.
InitExamples == \E a \in ExampleInputs : InitWith(a, LIMIT)

\* Mutant of AtCutoff: > for >=.
AtCutoffStrict == solutions > limit

\* solve, line 114: the test that makes a call return at once.
AtCutoff == solutions >= limit

Frame(p, r, c, n) == [pc |-> p, row |-> r, col |-> c, num |-> n]

Top == stack[Len(stack)]

Pop == SubSeq(stack, 1, Len(stack) - 1)

SetTop(f) == [stack EXCEPT ![Len(stack)] = f]

\* Mutant of ParseReject: Error is printed but the return is missing.
ParseRejectNoReturn ==
    /\ pc = "parse"
    /\ ~ParseArgs(args).ok
    /\ board' = ParseArgs(args).board
    /\ out' = Append(out, ErrorLine)
    /\ pc' = "validate"
    /\ UNCHANGED <<args, solution, solutions, limit, stack, start, nValid, nSolve, nCopy, found, placed>>

\* main, lines 17-40, some test failing: Error is printed and main returns.
ParseReject ==
    /\ pc = "parse"
    /\ ~ParseArgs(args).ok
    /\ board' = ParseArgs(args).board
    /\ out' = Append(out, ErrorLine)
    /\ pc' = "done"
    /\ UNCHANGED <<args, solution, solutions, limit, stack, start, nValid, nSolve, nCopy, found, placed>>

\* main, lines 17-40, every test passing: the board holds the parsed grid.
ParseAccept ==
    /\ pc = "parse"
    /\ ParseArgs(args).ok
    /\ board' = ParseArgs(args).board
    /\ start' = ParseArgs(args).board
    /\ pc' = "validate"
    /\ UNCHANGED <<args, solution, solutions, limit, stack, out, nValid, nSolve, nCopy, found, placed>>

\* Mutant of ValidateReject: Error is printed but the return is missing.
ValidateRejectNoReturn ==
    /\ pc = "validate"
    /\ ~isValid(board)
    /\ nValid' = nValid + 1
    /\ out' = Append(out, ErrorLine)
    /\ solutions' = 0
    /\ pc' = "solve"
    /\ UNCHANGED <<args, board, solution, limit, stack, start, nSolve, nCopy, found, placed>>

\* main, lines 43-46: isValid returns false.
ValidateReject ==
    /\ pc = "validate"
    /\ ~isValid(board)
    /\ nValid' = nValid + 1
    /\ out' = Append(out, ErrorLine)
    /\ pc' = "done"
    /\ UNCHANGED <<args, board, solution, solutions, limit, stack, start, nSolve, nCopy, found, placed>>

\* main, lines 43-49: isValid returns true, the counter is set to 0.
ValidateAccept ==
    /\ pc = "validate"
    /\ isValid(board)
    /\ nValid' = nValid + 1
    /\ solutions' = 0
    /\ pc' = "solve"
    /\ UNCHANGED <<args, board, solution, limit, stack, out, start, nSolve, nCopy, found, placed>>

\* main, line 50: the top-level call of solve.
MainCallSolve ==
    /\ pc = "solve"
    /\ stack' = <<Frame("enter", -1, -1, 0)>>
    /\ nSolve' = nSolve + 1
    /\ pc' = "search"
    /\ UNCHANGED <<args, board, solution, solutions, limit, out, start, nValid, nCopy, found, placed>>

\* Mutant of SolveCutoff: copySolution runs before the call returns.
SolveCutoffCopies ==
    /\ pc = "search" /\ stack # <<>> /\ Top.pc = "enter"
    /\ AtCutoff
    /\ solution' = copySolution(board)
    /\ stack' = Pop
    /\ UNCHANGED <<args, board, solutions, limit, pc, out, start, nValid, nSolve, nCopy, found, placed>>

\* solve, lines 114-116: the cutoff.
SolveCutoff ==
    /\ pc = "search" /\ stack # <<>> /\ Top.pc = "enter"
    /\ AtCutoff
    /\ stack' = Pop
    /\ UNCHANGED <<args, board, solution, solutions, limit, pc, out, start, nValid, nSolve, nCopy, found, placed>>

\* Mutant of SolveFoundFirst: the counter is incremented and the copy is not made.
SolveFoundFirstNoCopy ==
    /\ pc = "search" /\ stack # <<>> /\ Top.pc = "enter"
    /\ ~AtCutoff
    /\ ~findEmpty(board)[3]
    /\ solutions + 1 = 1
    /\ solutions' = solutions + 1
    /\ stack' = Pop
    /\ found' = Append(found, board)
    /\ UNCHANGED <<args, board, solution, limit, pc, out, start, nValid, nSolve, nCopy, placed>>

\* Mutant of SolveFoundFirst: the cutoff test is left out.
SolveFoundFirstNoCutoff ==
    /\ pc = "search" /\ stack # <<>> /\ Top.pc = "enter"
    /\ ~findEmpty(board)[3]
    /\ solutions + 1 = 1
    /\ solutions' = solutions + 1
    /\ solution' = copySolution(board)
    /\ nCopy' = nCopy + 1
    /\ stack' = Pop
    /\ found' = Append(found, board)
    /\ UNCHANGED <<args, board, limit, pc, out, start, nValid, nSolve, placed>>

\* solve, lines 118-126, no empty cell and the counter becomes 1: the copy.
SolveFoundFirst ==
    /\ pc = "search" /\ stack # <<>> /\ Top.pc = "enter"
    /\ ~AtCutoff
    /\ ~findEmpty(board)[3]
    /\ solutions + 1 = 1
    /\ solutions' = solutions + 1
    /\ solution' = copySolution(board)
    /\ nCopy' = nCopy + 1
    /\ stack' = Pop
    /\ found' = Append(found, board)
    /\ UNCHANGED <<args, board, limit, pc, out, start, nValid, nSolve, placed>>

\* Mutant of SolveFoundAgain: the copy is made at every increment.
SolveFoundAgainCopy ==
    /\ pc = "search" /\ stack # <<>> /\ Top.pc = "enter"
    /\ ~AtCutoff
    /\ ~findEmpty(board)[3]
    /\ solutions + 1 # 1
    /\ solutions' = solutions + 1
    /\ solution' = copySolution(board)
    /\ nCopy' = nCopy + 1
    /\ stack' = Pop
    /\ found' = Append(found, board)
    /\ UNCHANGED <<args, board, limit, pc, out, start, nValid, nSolve, placed>>

\* solve, lines 118-126, no empty cell and the counter becomes another value.
SolveFoundAgain ==
    /\ pc = "search" /\ stack # <<>> /\ Top.pc = "enter"
    /\ ~AtCutoff
    /\ ~findEmpty(board)[3]
    /\ solutions + 1 # 1
    /\ solutions' = solutions + 1
    /\ stack' = Pop
    /\ found' = Append(found, board)
    /\ UNCHANGED <<args, board, solution, limit, pc, out, start, nValid, nSolve, nCopy, placed>>

\* Mutant of SolveBegin: the cutoff test is left out.
SolveBeginNoCutoff ==
    /\ pc = "search" /\ stack # <<>> /\ Top.pc = "enter"
    /\ findEmpty(board)[3]
    /\ stack' = SetTop(Frame("loop", findEmpty(board)[1], findEmpty(board)[2], 1))
    /\ UNCHANGED <<args, board, solution, solutions, limit, pc, out, start, nValid, nSolve, nCopy, found, placed>>

\* Mutant of SolveBegin: the loop starts at num = 2.
SolveBeginFromTwo ==
    /\ pc = "search" /\ stack # <<>> /\ Top.pc = "enter"
    /\ ~AtCutoff
    /\ findEmpty(board)[3]
    /\ stack' = SetTop(Frame("loop", findEmpty(board)[1], findEmpty(board)[2], 2))
    /\ UNCHANGED <<args, board, solution, solutions, limit, pc, out, start, nValid, nSolve, nCopy, found, placed>>

\* solve, lines 118-128: an empty cell is found, the loop starts at num = 1.
SolveBegin ==
    /\ pc = "search" /\ stack # <<>> /\ Top.pc = "enter"
    /\ ~AtCutoff
    /\ findEmpty(board)[3]
    /\ stack' = SetTop(Frame("loop", findEmpty(board)[1], findEmpty(board)[2], 1))
    /\ UNCHANGED <<args, board, solution, solutions, limit, pc, out, start, nValid, nSolve, nCopy, found, placed>>

\* Mutant of TrySkip: isSafe tests num by writing it and leaves it in the cell.
TrySkipLeavesTrial ==
    /\ pc = "search" /\ stack # <<>> /\ Top.pc = "loop"
    /\ Top.num <= 9
    /\ ~isSafe(board, Top.row, Top.col, Top.num)
    /\ board' = [board EXCEPT ![Top.row][Top.col] = Top.num]
    /\ stack' = SetTop([Top EXCEPT !.num = @ + 1])
    /\ UNCHANGED <<args, solution, solutions, limit, pc, out, start, nValid, nSolve, nCopy, found, placed>>

\* solve, lines 128-129: isSafe is false, the loop goes on to num + 1.
TrySkip ==
    /\ pc = "search" /\ stack # <<>> /\ Top.pc = "loop"
    /\ Top.num <= 9
    /\ ~isSafe(board, Top.row, Top.col, Top.num)
    /\ stack' = SetTop([Top EXCEPT !.num = @ + 1])
    /\ UNCHANGED <<args, board, solution, solutions, limit, pc, out, start, nValid, nSolve, nCopy, found, placed>>

\* Mutant of TryPlace: solve is called without the digit being written.
TryPlaceNoWrite ==
    /\ pc = "search" /\ stack # <<>> /\ Top.pc = "loop"
    /\ Top.num <= 9
    /\ isSafe(board, Top.row, Top.col, Top.num)
    /\ stack' = Append(SetTop([Top EXCEPT !.pc = "back"]), Frame("enter", -1, -1, 0))
    /\ nSolve' = nSolve + 1
    /\ placed' = IF Len(placed) < MaxTrace
                 THEN Append(placed, <<Top.row, Top.col, Top.num>>)
                 ELSE placed
    /\ UNCHANGED <<args, board, solution, solutions, limit, pc, out, start, nValid, nCopy, found>>

\* Mutant of TryPlace: the digit is written at board[col][row].
TryPlaceTransposed ==
    /\ pc = "search" /\ stack # <<>> /\ Top.pc = "loop"
    /\ Top.num <= 9
    /\ isSafe(board, Top.row, Top.col, Top.num)
    /\ board' = [board EXCEPT ![Top.col][Top.row] = Top.num]
    /\ stack' = Append(SetTop([Top EXCEPT !.pc = "back"]), Frame("enter", -1, -1, 0))
    /\ nSolve' = nSolve + 1
    /\ placed' = IF Len(placed) < MaxTrace
                 THEN Append(placed, <<Top.row, Top.col, Top.num>>)
                 ELSE placed
    /\ UNCHANGED <<args, solution, solutions, limit, pc, out, start, nValid, nCopy, found>>

\* solve, lines 129-131: isSafe is true, num is placed and solve is called.
TryPlace ==
    /\ pc = "search" /\ stack # <<>> /\ Top.pc = "loop"
    /\ Top.num <= 9
    /\ isSafe(board, Top.row, Top.col, Top.num)
    /\ board' = [board EXCEPT ![Top.row][Top.col] = Top.num]
    /\ stack' = Append(SetTop([Top EXCEPT !.pc = "back"]), Frame("enter", -1, -1, 0))
    /\ nSolve' = nSolve + 1
    /\ placed' = IF Len(placed) < MaxTrace
                 THEN Append(placed, <<Top.row, Top.col, Top.num>>)
                 ELSE placed
    /\ UNCHANGED <<args, solution, solutions, limit, pc, out, start, nValid, nCopy, found>>

\* Mutant of Undo: the cell is not reset to 0 after the call.
UndoNoReset ==
    /\ pc = "search" /\ stack # <<>> /\ Top.pc = "back"
    /\ stack' = SetTop([Top EXCEPT !.pc = "loop", !.num = @ + 1])
    /\ UNCHANGED <<args, board, solution, solutions, limit, pc, out, start, nValid, nSolve, nCopy, found, placed>>

\* solve, line 132 and the loop's num++: the call has returned, the cell is reset.
Undo ==
    /\ pc = "search" /\ stack # <<>> /\ Top.pc = "back"
    /\ board' = [board EXCEPT ![Top.row][Top.col] = 0]
    /\ stack' = SetTop([Top EXCEPT !.pc = "loop", !.num = @ + 1])
    /\ UNCHANGED <<args, solution, solutions, limit, pc, out, start, nValid, nSolve, nCopy, found, placed>>

\* solve, lines 128 and 135: num has passed 9, the call returns.
LoopEnd ==
    /\ pc = "search" /\ stack # <<>> /\ Top.pc = "loop"
    /\ Top.num > 9
    /\ stack' = Pop
    /\ UNCHANGED <<args, board, solution, solutions, limit, pc, out, start, nValid, nSolve, nCopy, found, placed>>

\* Mutant of FinishPrint: the grid is printed for any counter of at least 1.
FinishPrintAtLeastOne ==
    /\ pc = "search" /\ stack = <<>>
    /\ solutions >= 1
    /\ out' = out \o printBoard(solution)
    /\ pc' = "done"
    /\ UNCHANGED <<args, board, solution, solutions, limit, stack, start, nValid, nSolve, nCopy, found, placed>>

\* main, lines 52-53: solve has returned with the counter at 1.
FinishPrint ==
    /\ pc = "search" /\ stack = <<>>
    /\ solutions = 1
    /\ out' = out \o printBoard(solution)
    /\ pc' = "done"
    /\ UNCHANGED <<args, board, solution, solutions, limit, stack, start, nValid, nSolve, nCopy, found, placed>>

\* Mutant of FinishError: the else branch prints the captured grid.
FinishErrorPrintsGrid ==
    /\ pc = "search" /\ stack = <<>>
    /\ solutions # 1
    /\ out' = out \o printBoard(solution)
    /\ pc' = "done"
    /\ UNCHANGED <<args, board, solution, solutions, limit, stack, start, nValid, nSolve, nCopy, found, placed>>

\* main, lines 54-56: solve has returned with the counter at another value.
FinishError ==
    /\ pc = "search" /\ stack = <<>>
    /\ solutions # 1
    /\ out' = Append(out, ErrorLine)
    /\ pc' = "done"
    /\ UNCHANGED <<args, board, solution, solutions, limit, stack, start, nValid, nSolve, nCopy, found, placed>>

Next ==
    \/ ParseReject
    \/ ParseAccept
    \/ ValidateReject
    \/ ValidateAccept
    \/ MainCallSolve
    \/ SolveCutoff
    \/ SolveFoundFirst
    \/ SolveFoundAgain
    \/ SolveBegin
    \/ TrySkip
    \/ TryPlace
    \/ Undo
    \/ LoopEnd
    \/ FinishPrint
    \/ FinishError

Spec == Init /\ [][Next]_vars

SpecSolve == InitSolve /\ [][Next]_vars

NextGrid ==
    \/ ParseReject
    \/ ParseAccept
    \/ ValidateReject
    \/ ValidateAccept

SpecGrid == InitGrid /\ [][NextGrid]_vars

SpecExamples == InitExamples /\ [][Next]_vars

\* The steps of a running solve: the call from main and every step of every
\* active call.
SolveStep ==
    \/ MainCallSolve
    \/ SolveCutoff
    \/ SolveFoundFirst
    \/ SolveFoundAgain
    \/ SolveBegin
    \/ TrySkip
    \/ TryPlace
    \/ Undo
    \/ LoopEnd

\* solve as a procedure of its own, with the progress a sequential program
\* makes: while a step of solve can be taken, one is taken.
SpecSolveLive == InitSolve /\ [][Next]_vars /\ WF_vars(SolveStep)

----------------------------------------------------------------------------
(* What the claims speak of: Sudoku's rules, stated without the code *)

Cells == Idx \X Idx

Rows == {{<<i, j>> : j \in Idx} : i \in Idx}

Cols == {{<<i, j>> : i \in Idx} : j \in Idx}

Boxes == {{<<3 * a + i, 3 * b + j>> : i \in 0 .. 2, j \in 0 .. 2} : a \in 0 .. 2, b \in 0 .. 2}

Units == Rows \cup Cols \cup Boxes

\* No two cells of U hold the same non-zero digit.
NoRepeat(g, U) ==
    Cardinality({g[p[1]][p[2]] : p \in {q \in U : g[q[1]][q[2]] # 0}})
        = Cardinality({q \in U : g[q[1]][q[2]] # 0})

Consistent(g) == \A U \in Units : NoRepeat(g, U)

Put(g, p, v) == [g EXCEPT ![p[1]][p[2]] = v]

\* The consistent grids that fill the cells of holes in g.  The cell filled
\* next is the row-major last one; a grid that is inconsistent with one more
\* cell filled has no consistent filling, so dropping it loses none.
RECURSIVE Fillings(_, _)
Fillings(g, holes) ==
    IF holes = {} THEN {g}
    ELSE LET p == CHOOSE p \in holes :
                    \A q \in holes : p[1] * SIZE + p[2] >= q[1] * SIZE + q[2]
         IN UNION {Fillings(h, holes \ {p}) :
                     h \in {h \in {Put(g, p, v) : v \in 1 .. 9} : Consistent(h)}}

\* All complete grids that extend g and satisfy row, column and box uniqueness.
Completions(g) == IF Consistent(g) THEN Fillings(g, EmptyCells(g)) ELSE {}

Min(a, b) == IF a <= b THEN a ELSE b

\* g comes before h when the cells are read in row-major order.
LexLess(g, h) ==
    \E p \in Cells :
        /\ g[p[1]][p[2]] < h[p[1]][p[2]]
        /\ \A q \in Cells :
              q[1] * SIZE + q[2] < p[1] * SIZE + p[2] => g[q[1]][q[2]] = h[q[1]][q[2]]

\* solve has returned to main.
SolveReturned == nSolve > 0 /\ stack = <<>>

\* The grid an argument list of the right shape and alphabet denotes.
WellFormed(argv) ==
    /\ Len(argv) = 9
    /\ \A i \in 1 .. 9 :
          /\ Len(argv[i]) = 9
          /\ \A k \in 1 .. 9 : argv[i][k] = Dot \/ argv[i][k] \in Ord1 .. Ord9

Denoted(argv) ==
    [i \in Idx |-> [j \in Idx |->
        IF argv[i + 1][j + 1] = Dot THEN 0 ELSE argv[i + 1][j + 1] - Ord0]]

\* The row-major first of a set of complete grids.
IsLexMin(g, S) == g \in S /\ \A h \in S : h = g \/ LexLess(g, h)

\* The search as a function of the grid: the counter, the captured grid and
\* the placements after solve has run on g from state st with limit lim.
RECURSIVE Outcome(_, _, _)
RECURSIVE OutcomeFrom(_, _, _, _, _)
Outcome(g, st, lim) ==
    IF st.n >= lim THEN st
    ELSE IF EmptyCells(g) = {}
    THEN [st EXCEPT !.n = @ + 1, !.sol = IF st.n = 0 THEN g ELSE @]
    ELSE LET p == CHOOSE p \in EmptyCells(g) :
                    \A q \in EmptyCells(g) : p[1] * SIZE + p[2] <= q[1] * SIZE + q[2]
         IN OutcomeFrom(g, p, 1, st, lim)

OutcomeFrom(g, p, v, st, lim) ==
    IF v > 9 THEN st
    ELSE IF Consistent(Put(g, p, v))
    THEN OutcomeFrom(g, p, v + 1,
                     Outcome(Put(g, p, v),
                             [st EXCEPT !.tr = Append(@, <<p[1], p[2], v>>)], lim),
                     lim)
    ELSE OutcomeFrom(g, p, v + 1, st, lim)

----------------------------------------------------------------------------
(* The claims *)

\* C1: when the arguments parse, main ends having printed the solution grid
\* exactly if the parsed grid passes isValid and has exactly one completion,
\* and then the grid printed is that completion; in every other case it has
\* printed the single line Error.
C1_PrintsIffUnique ==
    (pc = "done" /\ ParseArgs(args).ok) =>
        IF isValid(start) /\ Cardinality(Completions(start)) = 1
        THEN out = printBoard(CHOOSE g \in Completions(start) : TRUE)
        ELSE out = <<ErrorLine>>

C1_Witness ==
    /\ pc = "done" /\ Len(out) = SIZE
    /\ Cardinality(EmptyCells(start)) >= 3
    /\ Cardinality(Completions(start)) = 1

\* C2: for a grid that passes isValid and has a unique completion, solve with
\* limit 2 returns with the counter at 1 and a captured grid without zero in
\* which every row, column and box holds each of 1..9.
C2_UniqueCompletionCaptured ==
    (SolveReturned /\ limit = LIMIT /\ isValid(start)
        /\ Cardinality(Completions(start)) = 1) =>
        /\ solutions = 1
        /\ EmptyCells(solution) = {}
        /\ \A U \in Units : {solution[p[1]][p[2]] : p \in U} = 1 .. 9

C2_Witness ==
    /\ SolveReturned /\ limit = LIMIT /\ isValid(start)
    /\ Cardinality(Completions(start)) = 1
    /\ Cardinality(EmptyCells(start)) >= 3
    /\ solutions = 1

\* C3: for a grid that passes isValid, solve returns with the counter equal to
\* min(limit, N), N the number of completions of the starting grid; the grids
\* counted are completions and no grid is counted twice.
C3_CounterIsMinLimitN ==
    (SolveReturned /\ isValid(start)) =>
        /\ solutions = Min(limit, Cardinality(Completions(start)))
        /\ Len(found) = solutions
        /\ \A k \in 1 .. Len(found) : found[k] \in Completions(start)
        /\ \A k, m \in 1 .. Len(found) : k # m => found[k] # found[m]

C3_Witness ==
    /\ SolveReturned /\ isValid(start)
    /\ limit = 2 /\ solutions = 2
    /\ Cardinality(Completions(start)) > 2

\* C4: for a grid that passes isValid and has no completion, main ends with
\* the counter at 0, the captured-solution grid never written (no execution of
\* copySolution, every cell still 0), and Error printed.
C4_UnsatisfiableRejected ==
    (pc = "done" /\ nValid = 1 /\ isValid(start) /\ Completions(start) = {}) =>
        /\ solutions = 0
        /\ nCopy = 0
        /\ solution = ZeroBoard
        /\ out = <<ErrorLine>>

C4_Witness ==
    /\ pc = "done" /\ nValid = 1 /\ isValid(start) /\ Completions(start) = {}
    /\ Len(placed) >= 1
    /\ out = <<ErrorLine>>

\* C5: on every grid isValid is true exactly if no row, column or box holds
\* two equal non-zero digits; isValidSubgrid on a box origin is true exactly if
\* that box holds none, and isValid is the conjunction of the nine box checks
\* and of the absence of a row or column duplicate.
C5_IsValidIffNoDuplicate ==
    /\ isValid(board) = Consistent(board)
    /\ \A i \in BoxStarts : \A j \in BoxStarts :
          isValidSubgrid(board, i, j)
              = NoRepeat(board, {<<i + a, j + b>> : a \in 0 .. 2, b \in 0 .. 2})
    /\ isValid(board)
          = /\ \A i \in BoxStarts : \A j \in BoxStarts : isValidSubgrid(board, i, j)
            /\ \A U \in Rows \cup Cols : NoRepeat(board, U)

\* A duplicate in a box with none in any row or column.
C5_Witness ==
    /\ nValid = 1
    /\ ~isValid(board)
    /\ \A U \in Rows \cup Cols : NoRepeat(board, U)

\* C6: on a consistent grid, isSafe(r, c, v) for an empty cell (r, c) is true
\* exactly if the grid with v written at (r, c) is still consistent: for the
\* cell and value of every test the search makes, and for every empty cell
\* and every value of the grid the search starts from.
C6_IsSafeIffStillConsistent ==
    Consistent(board) =>
        /\ (pc = "search" /\ stack # <<>> /\ Top.pc = "loop" /\ Top.num <= 9) =>
              /\ board[Top.row][Top.col] = 0
              /\ isSafe(board, Top.row, Top.col, Top.num)
                    = Consistent(Put(board, <<Top.row, Top.col>>, Top.num))
        /\ pc = "solve" =>
              \A p \in EmptyCells(board) : \A v \in 1 .. 9 :
                  isSafe(board, p[1], p[2], v) = Consistent(Put(board, p, v))

\* A value that its row and column allow and its box forbids.
C6_Witness ==
    /\ pc = "search" /\ stack # <<>> /\ Top.pc = "loop" /\ Top.num <= 9
    /\ ~isSafe(board, Top.row, Top.col, Top.num)
    /\ \A i \in Idx : board[Top.row][i] # Top.num /\ board[i][Top.col] # Top.num

\* C7: when a grid that passes isValid has a completion, the grid captured
\* when solve returns is the completion that comes first when the cells are
\* read in row-major order.
C7_CapturedIsLexMin ==
    (SolveReturned /\ limit = LIMIT /\ isValid(start) /\ Completions(start) # {}) =>
        IsLexMin(solution, Completions(start))

C7_Witness ==
    /\ SolveReturned /\ limit = LIMIT /\ isValid(start)
    /\ Cardinality(Completions(start)) >= 3
    /\ IsLexMin(solution, Completions(start))

\* C8: the placements made, the final counter and the captured grid are a
\* function of the starting grid: every run from the same grid, ambiguous or
\* not, ends with the same three.
C8_RunIsFunctionOfGrid ==
    (SolveReturned /\ isValid(start)) =>
        LET r == Outcome(start, [n |-> 0, sol |-> ZeroBoard, tr |-> <<>>], limit)
        IN /\ placed = r.tr
           /\ solutions = r.n
           /\ solution = r.sol

C8_Witness ==
    /\ SolveReturned /\ isValid(start)
    /\ solutions = 2 /\ Len(placed) >= 5

\* C9: the parser accepts exactly the lists of 9 rows of 9 characters, each a
\* dot or a digit 1..9, and then the board holds 0 for a dot and d for digit
\* d; for every other list main prints Error and neither isValid nor solve
\* is called.
C9_ParserAcceptsExactlyWellFormed ==
    pc # "parse" =>
        IF WellFormed(args)
        THEN /\ start = Denoted(args)
             /\ pc = "validate" => board = Denoted(args) /\ nValid = 0
             /\ pc # "validate" => nValid = 1
        ELSE /\ pc = "done"
             /\ out = <<ErrorLine>>
             /\ nValid = 0
             /\ nSolve = 0

\* Rows of the right number and length, one character outside the alphabet.
C9_Witness ==
    /\ pc = "done" /\ ~WellFormed(args)
    /\ Len(args) = SIZE /\ \A i \in 1 .. SIZE : Len(args[i]) = SIZE
    /\ out = <<ErrorLine>>

\* C10: when the input parses, isValid is evaluated once, on the grid as
\* parsed and before any call of solve; when it is false, solve is never
\* called, the board keeps the parsed grid and the output is Error.
C10_ValidatedOnceBeforeSolve ==
    /\ nValid <= 1
    /\ nSolve > 0 => nValid = 1 /\ isValid(start)
    /\ pc = "validate" => nValid = 0 /\ nSolve = 0 /\ board = start
    /\ (pc \in {"solve", "search"} \/ (pc = "done" /\ ParseArgs(args).ok)) => nValid = 1
    /\ (nValid = 1 /\ ~isValid(start)) =>
          /\ nSolve = 0
          /\ board = start
          /\ pc = "done"
          /\ out = <<ErrorLine>>

C10_Witness ==
    /\ pc = "done" /\ nValid = 1 /\ ~isValid(start)
    /\ nSolve = 0 /\ out = <<ErrorLine>>

\* C11: every rejecting path of main (wrong argument count, wrong row length,
\* character outside the alphabet, grid with a duplicate, no completion, two
\* or more completions) ends with the single line Error as the whole output;
\* nothing is printed before main ends, and a finished run has printed either
\* that one line or nine grid lines, never both and never neither.
C11_OneOutputOnly ==
    /\ pc # "done" => out = <<>>
    /\ pc = "done" =>
          /\ \/ out = <<ErrorLine>>
             \/ Len(out) = SIZE /\ \A i \in 1 .. SIZE : out[i] # ErrorLine
          /\ (\/ Len(args) # SIZE
              \/ \E i \in 1 .. Len(args) : ByteLen(args[i]) # SIZE
              \/ ~WellFormed(args)
              \/ ~Consistent(start)
              \/ Cardinality(Completions(start)) # 1) => out = <<ErrorLine>>

\* A run rejected by the search for two or more completions.
C11_Witness ==
    /\ pc = "done" /\ WellFormed(args) /\ Consistent(start)
    /\ Cardinality(Completions(start)) >= 2
    /\ out = <<ErrorLine>>

\* C12: when main accepts, the output is exactly 9 lines; line i holds the 9
\* digits of row i of the captured grid, in column order, each two neighbours
\* separated by one space, with nothing before the first digit and nothing
\* after the last; the digits are those of the captured grid, not of the board.
C12_NineLinesOfCapturedGrid ==
    (pc = "done" /\ nSolve > 0 /\ solutions = 1) =>
        /\ Len(out) = 9
        /\ \A i \in 0 .. 8 :
              /\ Len(out[i + 1]) = 17
              /\ \A j \in 0 .. 8 :
                    /\ out[i + 1][2 * j + 1] \in Ord1 .. Ord9
                    /\ out[i + 1][2 * j + 1] - Ord0 = solution[i][j]
              /\ \A j \in 1 .. 8 : out[i + 1][2 * j] = Space

\* An accepting run whose board differs from the captured grid when printing.
C12_Witness ==
    /\ pc = "done" /\ nSolve > 0 /\ solutions = 1
    /\ Len(out) = 9
    /\ \E p \in Cells : board[p[1]][p[2]] # solution[p[1]][p[2]]

\* The output lines spell the grid whose rows of digits are rows: nine lines,
\* nine digit characters each, one space between neighbours.
Shows(lines, rows) ==
    /\ Len(lines) = 9
    /\ \A i \in 1 .. 9 :
          /\ Len(lines[i]) = 17
          /\ \A j \in 1 .. 9 : lines[i][2 * j - 1] = Ord0 + rows[i][j]
          /\ \A j \in 1 .. 8 : lines[i][2 * j] = Space

\* C13: for the sample input 53..7.... 6..195... .98....6. 8...6...3 4..8.3..1
\* 7...2...6 .6....28. ...419..5 ....8..79 the search returns with the counter
\* at exactly 1 and main prints the rows 534678912 672195348 198342567
\* 859761423 426853791 713924856 961537284 287419635 345286179.
C13_SampleSolved ==
    args = SampleArgs =>
        /\ SolveReturned => solutions = 1
        /\ pc = "done" => nSolve > 0 /\ Shows(out, Solved)

C13_Witness ==
    /\ args = SampleArgs /\ pc = "done" /\ SolveReturned
    /\ solutions = 1 /\ nSolve > 1000 /\ Shows(out, Solved)

\* C14: for nine rows of nine dots isValid is true, the counter never passes
\* 2, the search returns with the counter at exactly 2, and main prints Error.
C14_EmptyGridCutOffAtTwo ==
    args = EmptyArgs =>
        /\ pc # "parse" => start = ZeroBoard /\ isValid(start)
        /\ pc = "done" => nValid = 1 /\ nSolve > 0
        /\ solutions <= 2
        /\ SolveReturned => solutions = 2
        /\ pc = "done" => out = <<ErrorLine>>

\* The search on the empty grid has returned after counting two different
\* complete grids, and main has printed Error.
C14_Witness ==
    /\ args = EmptyArgs /\ pc = "done" /\ SolveReturned
    /\ solutions = 2 /\ Len(found) = 2 /\ found[1] # found[2]
    /\ out = <<ErrorLine>>

\* C15: for the sample with the last row ....8..99 isValid is false, the row
\* and column loop of isValid being the one that returns false, on the last
\* row, whose two 9s are the grid's only duplicate in a row or a column; main
\* prints Error and solve is never called.
C15_DuplicateRowRejected ==
    args = SampleLastRow99Args =>
        /\ nSolve = 0
        /\ pc # "parse" =>
              /\ ~isValid(start)
              /\ RowColDup(start, SIZE - 1, 0, {}, {})
              /\ \A i \in 0 .. SIZE - 2 : ~RowColDup(start, i, 0, {}, {})
              /\ {U \in Rows \cup Cols : ~NoRepeat(start, U)}
                    = {{<<SIZE - 1, j>> : j \in Idx}}
              /\ start[SIZE - 1][SIZE - 2] = 9 /\ start[SIZE - 1][SIZE - 1] = 9
        /\ pc \notin {"parse", "validate"} => pc = "done" /\ out = <<ErrorLine>>

C15_Witness ==
    /\ args = SampleLastRow99Args /\ pc = "done" /\ nValid = 1
    /\ ~isValid(start) /\ nSolve = 0 /\ out = <<ErrorLine>>

C17_CounterMonotoneUpToLimit ==
    /\ [](nSolve > 0 => solutions >= 0 /\ solutions <= limit)
    /\ [][/\ nSolve > 0 => solutions' >= solutions
          /\ solutions' # solutions =>
                /\ solutions' = solutions + 1
                /\ pc = "search" /\ stack # <<>> /\ Top.pc = "enter"
                /\ solutions < limit
                /\ \A p \in Cells : board[p[1]][p[2]] # 0
                /\ Len(stack') = Len(stack) - 1]_vars

\* The counter has been raised to a limit of 3 and the search is still going on.
C17_Witness ==
    /\ pc = "search" /\ stack # <<>>
    /\ limit = 3 /\ solutions = limit /\ Len(found) = 3

\* C18: the captured grid is written at most once in a run.  It is written by
\* the step that takes the counter from 0 to 1 and by no other step, that step
\* leaves in it the board of that moment, cell for cell, and a completion
\* found later leaves it as it is.
C18_CapturedWrittenOnce ==
    /\ [](nCopy <= 1)
    /\ [][/\ (solutions = 0 /\ solutions' = 1) <=> nCopy' = nCopy + 1
          /\ nCopy' # nCopy =>
                /\ nCopy = 0
                /\ \A p \in Cells : solution'[p[1]][p[2]] = board[p[1]][p[2]]
                /\ board' = board
          /\ nCopy' = nCopy => solution' = solution]_vars

\* A second completion has been counted and the captured grid is still the first.
C18_Witness ==
    /\ solutions >= 2 /\ nCopy = 1 /\ Len(found) >= 2
    /\ solution = found[1] /\ solution # found[2]

\* The grid the k-th active call of the stack st was entered with: the parsed
\* grid plus the digit each of its callers placed before calling.
EntryGrid(st, k) ==
    [i \in Idx |-> [j \in Idx |->
        IF \E m \in 1 .. k - 1 : st[m].row = i /\ st[m].col = j
        THEN st[CHOOSE m \in 1 .. k - 1 : st[m].row = i /\ st[m].col = j].num
        ELSE start[i][j]]]

\* C19: every call of solve, at every depth and whichever way it returns (the
\* cutoff, a completion counted, the loop running out), returns with the
\* board equal in every cell to the board it was entered with; so when solve
\* has returned to main the board is the parsed grid in every cell, the cells
\* filled in the captured grid included.  The board at entry is EntryGrid: a
\* call step enters the new call with exactly that board, and the frames of
\* the callers, from which it is computed, do not change while the call runs.
C19_SolveRestoresBoard ==
    /\ [](SolveReturned => board = start)
    /\ [][/\ start' = start \/ pc = "parse"
          /\ \A k \in 1 .. Len(stack) - 1 : k <= Len(stack') /\ stack'[k] = stack[k]
          /\ Len(stack') = Len(stack) + 1 => board' = EntryGrid(stack', Len(stack'))
          /\ Len(stack') = Len(stack) - 1 => board' = EntryGrid(stack, Len(stack))
          /\ Len(stack') \in {Len(stack) - 1, Len(stack), Len(stack) + 1}]_vars

\* solve has returned with the counter at the limit: the board is the parsed
\* grid, with zeros where the captured grid has digits.
C19_Witness ==
    /\ SolveReturned /\ limit >= 1 /\ solutions = limit
    /\ board = start
    /\ Cardinality(EmptyCells(start)) >= 3
    /\ EmptyCells(solution) = {}

\* C20: when the parsed grid passes isValid, in every state from the call of
\* solve on, whatever the depth, no row, column or 3x3 box of the board holds
\* the same non-zero digit twice.
C20_BoardStaysConsistent ==
    (nValid = 1 /\ isValid(start) /\ pc \in {"solve", "search"}) =>
        \A U \in Units : NoRepeat(board, U)

\* A call entered three placements deep, with a digit of the board that is
\* not in the parsed grid.
C20_Witness ==
    /\ pc = "search" /\ nValid = 1 /\ isValid(start)
    /\ Len(stack) >= 4 /\ Top.pc = "enter"
    /\ Cardinality(EmptyCells(start) \ EmptyCells(board)) >= 3

\* A step of the search that changes a cell of the board changes a cell that
\* is 0 in the parsed grid, and writes a digit 1..9 only over a 0.
WritesOnlyEmptyCells ==
    pc \in {"solve", "search"} =>
        \A p \in Cells :
            (board'[p[1]][p[2]] # board[p[1]][p[2]]) =>
                /\ start[p[1]][p[2]] = 0
                /\ (board'[p[1]][p[2]] # 0) =>
                      (board[p[1]][p[2]] = 0 /\ board'[p[1]][p[2]] \in (1 .. 9))

\* C21: solve writes only to cells that are 0 in the parsed grid: from the
\* call of solve on, every cell that holds a digit in the parsed grid holds
\* that digit on the board, a step of the search changes the board only in
\* cells that are 0 in the parsed grid, and a step that writes a digit 1..9
\* writes it into a cell that holds 0 before the step.
C21_OnlyEmptyCellsWritten ==
    /\ [](nSolve > 0 =>
            \A p \in Cells : start[p[1]][p[2]] # 0 => board[p[1]][p[2]] = start[p[1]][p[2]])
    /\ [][WritesOnlyEmptyCells]_vars

\* A digit has been placed in a grid that has clues and more than one empty cell.
C21_Witness ==
    /\ pc = "search" /\ stack # <<>> /\ Top.pc = "enter"
    /\ \E p \in Cells : start[p[1]][p[2]] = 0 /\ board[p[1]][p[2]] # 0
    /\ \E p \in Cells : start[p[1]][p[2]] # 0
    /\ Cardinality(EmptyCells(start)) >= 3

\* C22: for every grid that passes isValid, solve, once called, returns; and
\* at every moment the number of active solve calls is at most the number of
\* empty cells of the parsed grid plus one, hence at most 82: a call entered
\* at depth d sees a board with d - 1 fewer empty cells than the parsed grid,
\* each placement taking one empty cell away from the deeper call.
C22_SolveTerminatesDepthBounded ==
    /\ [](nSolve > 0 =>
            /\ Len(stack) <= Cardinality(EmptyCells(start)) + 1
            /\ Len(stack) <= SIZE * SIZE + 1
            /\ (stack # <<>> /\ Top.pc \in {"enter", "loop"}) =>
                  Cardinality(EmptyCells(board))
                      = Cardinality(EmptyCells(start)) - (Len(stack) - 1))
    /\ (pc = "solve" /\ isValid(start)) ~> SolveReturned

\* The deepest call possible: one call per empty cell and one more, which
\* sees a full board.
C22_Witness ==
    /\ pc = "search" /\ isValid(start)
    /\ Cardinality(EmptyCells(start)) >= 3
    /\ Len(stack) = Cardinality(EmptyCells(start)) + 1
    /\ EmptyCells(board) = {}

\* The number of active calls that have passed the cutoff test and found an
\* empty cell: the frames in their loop.
Started(st) == Cardinality({k \in 1 .. Len(st) : st[k].pc # "enter"})

\* A step taken with the counter at the limit writes no digit: a cell of the
\* board either keeps its value or becomes 0.
NoDigitWrittenAtCutoff ==
    (nSolve > 0 /\ solutions >= limit) =>
        \A p \in Cells :
            board'[p[1]][p[2]] = board[p[1]][p[2]] \/ board'[p[1]][p[2]] = 0

StepAtCutoff ==
    (nSolve > 0 /\ stack # <<>> /\ solutions >= limit) =>
        /\ solutions' = solutions
        /\ solution' = solution
        /\ nCopy' = nCopy
        /\ Top.pc = "enter" => (stack' = Pop /\ board' = board)
        /\ Started(stack') <= Started(stack)
        /\ Len(stack') > Len(stack) =>
              /\ Top.pc = "loop"
              /\ board[Top.row][Top.col] = 0
              /\ board' = [board EXCEPT ![Top.row][Top.col] = Top.num]
              /\ stack'[Len(stack')].pc = "enter"

EnteredAtCutoff ==
    pc = "search" /\ stack # <<>> /\ Top.pc = "enter" /\ solutions >= limit

\* The step such a call takes is its return: the call is popped with its frame
\* never having held a cell (findEmpty is not evaluated), and the board, the
\* counter and the captured grid are left as they are.
ReturnsAtOnce ==
    EnteredAtCutoff =>
        /\ stack' = SubSeq(stack, 1, Len(stack) - 1)
        /\ Top.row = -1 /\ Top.col = -1
        /\ board' = board
        /\ solutions' = solutions
        /\ solution' = solution
        /\ nCopy' = nCopy /\ nSolve' = nSolve /\ found' = found /\ placed' = placed

\* C24: a call of solve entered with the counter at or above the limit returns
\* immediately: it does not look for an empty cell, whether the board has one
\* or not, and it leaves the board, the counter and the captured grid unchanged.
C24_CutoffCallReturnsUnchanged == [][ReturnsAtOnce]_vars

\* A call entered at the cutoff on a board that still has an empty cell.
C24_Witness ==
    /\ EnteredAtCutoff
    /\ EmptyCells(board) # {}
    /\ limit >= 1 /\ Len(stack) >= 2

\* What findEmpty returns on the board is right: found exactly when some cell
\* holds 0, and then the cell returned holds 0 and no cell before it in
\* row-major order does.
FindEmptyIsFirstZero ==
    LET r == findEmpty(board) IN
    /\ r[3] = (\E p \in Cells : board[p[1]][p[2]] = 0)
    /\ r[3] =>
          /\ <<r[1], r[2]>> \in Cells
          /\ board[r[1]][r[2]] = 0
          /\ \A q \in Cells :
                board[q[1]][q[2]] = 0 =>
                    (r[1] < q[1] \/ (r[1] = q[1] /\ r[2] <= q[2]))

\* The values of a loop are taken in the order 1, 2, ..., 9: a call starts
\* its loop at 1 on the cell findEmpty returned, a step of the call keeps the
\* cell and keeps the value or goes to the next one, the value written is
\* the current one, and the call leaves the loop when the value has passed 9.
AscendingValues ==
    (pc = "search" /\ stack # <<>>) =>
        LET n == Len(stack) IN
        /\ (Top.pc = "enter" /\ Len(stack') = n /\ stack'[n].pc = "loop") =>
              /\ stack'[n].num = 1
              /\ stack'[n].row = findEmpty(board)[1]
              /\ stack'[n].col = findEmpty(board)[2]
        /\ (Top.pc # "enter" /\ Len(stack') >= n) =>
              /\ stack'[n].row = Top.row /\ stack'[n].col = Top.col
              /\ stack'[n].num \in {Top.num, Top.num + 1}
              /\ Top.num \in 1 .. 9
              /\ (stack'[n].num = Top.num) = (stack'[n].pc = "back" /\ Top.pc = "loop")
              /\ (stack'[n].pc = "back" /\ Top.pc = "loop") =>
                    board' = [board EXCEPT ![Top.row][Top.col] = Top.num]
        /\ (Top.pc # "enter" /\ Len(stack') < n) => Top.num = 10 /\ Top.pc = "loop"

\* C25: findEmpty reports found exactly when the board has a cell holding 0,
\* and then returns the row-major first such cell (smallest row, then smallest
\* column); with no such cell it reports not found; and solve tries the values
\* for that cell in ascending order 1, 2, ..., 9.
C25_FirstEmptyCellAscendingValues ==
    /\ [](pc # "parse" => FindEmptyIsFirstZero)
    /\ [][AscendingValues]_vars

\* A loop that has reached the value 9 on a board with several empty cells,
\* the cell of the loop being the first of them.
C25_Witness ==
    /\ pc = "search" /\ stack # <<>> /\ Top.pc = "loop" /\ Top.num = 9
    /\ Cardinality(EmptyCells(board)) >= 2
    /\ findEmpty(board) = <<Top.row, Top.col, TRUE>>

\* The board, the captured grid and the counter are the same after the step.
GlobalsKept == board' = board /\ solution' = solution /\ solutions' = solutions

\* The steps on which a predicate is evaluated.  isValid, with its calls of
\* isValidSubgrid, is the whole of the validation step whichever way it
\* answers.  findEmpty is evaluated by a call past the cutoff test: when it
\* finds a cell nothing else happens on the step, when it finds none the
\* board is still untouched.  isSafe is evaluated once per value of a loop:
\* when it is false nothing else happens on the step, when it is true the one
\* change of the board is the write solve makes at the cell of the loop.
PredicatesReadOnly ==
    /\ pc = "validate" => GlobalsKept
    /\ (pc = "search" /\ stack # <<>> /\ Top.pc = "enter" /\ solutions < limit) =>
          /\ board' = board
          /\ findEmpty(board)[3] => GlobalsKept
    /\ (pc = "search" /\ stack # <<>> /\ Top.pc = "loop" /\ Top.num <= 9) =>
          /\ solution' = solution /\ solutions' = solutions
          /\ ~isSafe(board, Top.row, Top.col, Top.num) => GlobalsKept
          /\ \A p \in Cells : p # <<Top.row, Top.col>> => board'[p[1]][p[2]] = board[p[1]][p[2]]

\* C26: isValid, isValidSubgrid, isSafe and findEmpty are read-only: the board,
\* the captured grid and the counter are the same after any of them has been
\* evaluated as before.
C26_PredicatesReadOnly == [][PredicatesReadOnly]_vars

\* A loop that has gone through at least three values in a search with a
\* captured grid: isValid, findEmpty and isSafe have all been evaluated.
C26_Witness ==
    /\ pc = "search" /\ stack # <<>> /\ Top.pc = "loop" /\ Top.num >= 4
    /\ nValid = 1 /\ solutions = 1 /\ nCopy = 1
    /\ board[Top.row][Top.col] = 0

\* A step that changes the counter during the search is taken on a board
\* without a zero in which every row, column and box holds each of 1..9, and
\* the step neither changes the board nor evaluates isValid.
IncrementOnCompleteGrid ==
    (nSolve > 0 /\ isValid(start) /\ solutions' # solutions) =>
        /\ \A p \in Cells : board[p[1]][p[2]] \in 1 .. 9
        /\ \A U \in Units : {board[p[1]][p[2]] : p \in U} = 1 .. 9
        /\ board' = board
        /\ nValid' = nValid

\* C27: when the parsed grid passes isValid, at every step that increments the
\* counter the board has no zero cell and is a complete assignment in which
\* no row, column or box repeats a digit, although solve does not validate
\* the board at that point.
C27_IncrementOnlyOnCompleteGrid == [][IncrementOnCompleteGrid]_vars

\* The counter has been incremented a second time, at a grid other than the first.
C27_Witness ==
    /\ nSolve > 0 /\ isValid(start)
    /\ solutions = 2 /\ Len(found) = 2 /\ found[1] # found[2]
    /\ \A U \in Units : {found[2][p[1]][p[2]] : p \in U} = 1 .. 9

\* C28: when the parsed grid has no empty cell and passes isValid, solve is
\* called once and places nothing, it returns with the counter at exactly 1
\* and the captured grid equal to the parsed grid, and main prints the nine
\* rows of the parsed grid.
C28_FullGridPrintedAsIs ==
    (nValid = 1 /\ limit = LIMIT /\ EmptyCells(start) = {} /\ isValid(start)) =>
        /\ placed = <<>>
        /\ nSolve <= 1
        /\ board = start
        /\ SolveReturned =>
              /\ solutions = 1
              /\ nCopy = 1
              /\ solution = start
        /\ pc = "done" =>
              /\ SolveReturned
              /\ Len(out) = 9
              /\ \A i \in 1 .. 9 :
                    /\ Len(out[i]) = 17
                    /\ \A j \in 1 .. 9 : out[i][2 * j - 1] = args[i][j]
                    /\ \A j \in 1 .. 8 : out[i][2 * j] = Space

\* A full grid other than the sample's solution has been printed.
C28_Witness ==
    /\ pc = "done" /\ nValid = 1 /\ isValid(start) /\ EmptyCells(start) = {}
    /\ start[0][1] # Solved[1][2]
    /\ Len(out) = 9 /\ solution = start

\* C29: once copySolution has written the captured grid, every cell of the
\* captured grid holds a digit 1..9, and every cell that was non-zero in the
\* parsed grid holds the same digit in the captured grid.
C29_CapturedKeepsClues ==
    nCopy >= 1 =>
        \A i \in Idx : \A j \in Idx :
            /\ solution[i][j] \in 1 .. 9
            /\ start[i][j] # 0 => solution[i][j] = start[i][j]

\* The captured grid of a puzzle with holes is still held after the search
\* has gone on to a second solution and the board has moved away from it.
C29_Witness ==
    /\ nCopy >= 1 /\ solutions = 2
    /\ EmptyCells(start) # {}
    /\ \E i \in Idx : \E j \in Idx : start[i][j] # 0
    /\ solution # board
    /\ \A i \in Idx : \A j \in Idx : solution[i][j] \in 1 .. 9

====
